---- MODULE Spec2Model ----
(***************************************************************************)
(* The mcl_orthologues notebook: read_mcl (MCL cluster file -> list of     *)
(* tuples), read_genbank (GenBank records -> dict of CDS features) and     *)
(* write_crunch (clusters + features -> ACT .crunch files), together with  *)
(* the two cell-level definitions of split_seqid.                          *)
(*                                                                         *)
(* Python str values are TLA+ strings; a character is a string of length 1 *)
(* obtained with SubSeq.  Python lists and tuples are sequences, dicts are *)
(* functions, sets are sets.                                               *)
(***************************************************************************)
EXTENDS Integers, Sequences, FiniteSets, Bags, TLC

VARIABLES
    split_seqid,   \* which cell's def the global name split_seqid is bound to
    seqid,         \* argument of a direct call of split_seqid
    results,       \* values returned by successive split_seqid calls, each fed the previous
    mcl_file,      \* lines of the MCL cluster file on disk
    all_clusters,  \* notebook global: what read_mcl returned
    error,         \* exception raised by the last call, or "none"
    gbk_files,     \* GenBank records last passed to read_genbank, one per file
    clusters,      \* notebook global / write_crunch argument: list of tuples
    features,      \* notebook global / write_crunch argument: dict protein id -> feature
    pc,            \* where the call under study stands: "idle", a loop of write_crunch, "returned", "raised"
    ci,            \* index of the next cluster of the first loop
    pairs_dict,    \* write_crunch local: key -> set of (ft1, ft2)
    files          \* outdir: file name -> bag of lines

vars == <<split_seqid, seqid, results, mcl_file, all_clusters, error,
          gbk_files, clusters, features, pc, ci, pairs_dict, files>>

----------------------------------------------------------------------------
(* Python str and list primitives                                          *)

Char(s, i) == SubSeq(s, i, i)

\* Characters in code-point order (str comparison is by code point).
Ascii == "\t\n ./0123456789ABCDEFGHIJKLMNOPQRSTUVWXYZ_abcdefghijklmnopqrstuvwxyz|"

Ord(c) == CHOOSE i \in 1..Len(Ascii) : Char(Ascii, i) = c

IsSpace(c) == c \in {" ", "\t", "\n"}

\* s < t for str: first differing character decides, a proper prefix is smaller.
RECURSIVE StrLess(_, _)
StrLess(s, t) ==
    IF Len(t) = 0 THEN FALSE
    ELSE IF Len(s) = 0 THEN TRUE
    ELSE IF Char(s, 1) # Char(t, 1) THEN Ord(Char(s, 1)) < Ord(Char(t, 1))
    ELSE StrLess(SubSeq(s, 2, Len(s)), SubSeq(t, 2, Len(t)))

\* s.split(sep) for a one-character sep: always at least one segment.
RECURSIVE PySplit(_, _)
PySplit(s, sep) ==
    LET hits == {i \in 1..Len(s) : Char(s, i) = sep}
    IN  IF hits = {} THEN <<s>>
        ELSE LET i == CHOOSE k \in hits : \A j \in hits : k <= j
             IN  <<SubSeq(s, 1, i - 1)>> \o PySplit(SubSeq(s, i + 1, Len(s)), sep)

\* s.strip(): leading and trailing whitespace removed.
PyStrip(s) ==
    LET keep == {i \in 1..Len(s) : ~IsSpace(Char(s, i))}
    IN  IF keep = {} THEN ""
        ELSE SubSeq(s, CHOOSE k \in keep : \A j \in keep : k <= j,
                       CHOOSE k \in keep : \A j \in keep : k >= j)

\* s.split() with no separator: maximal runs of non-whitespace, no empty strings.
RECURSIVE PySplitWs(_)
PySplitWs(s) ==
    LET t == PyStrip(s)
        ws == {i \in 1..Len(t) : IsSpace(Char(t, i))}
    IN  IF t = "" THEN <<>>
        ELSE IF ws = {} THEN <<t>>
        ELSE LET i == CHOOSE k \in ws : \A j \in ws : k <= j
             IN  <<SubSeq(t, 1, i - 1)>> \o PySplitWs(SubSeq(t, i + 1, Len(t)))

\* sep.join(parts)
RECURSIVE PyJoin(_, _)
PyJoin(sep, parts) ==
    IF Len(parts) = 0 THEN ""
    ELSE IF Len(parts) = 1 THEN parts[1]
    ELSE parts[1] \o sep \o PyJoin(sep, Tail(parts))

\* str(n) for an int
RECURSIVE PyStr(_)
PyStr(n) ==
    IF n < 0 THEN "-" \o PyStr(-n)
    ELSE IF n < 10 THEN Char("0123456789", n + 1)
    ELSE PyStr(n \div 10) \o Char("0123456789", (n % 10) + 1)

----------------------------------------------------------------------------
(* split_seqid, as defined by the reader cell and by the writer cell       *)

\* seqid.split('|')[-2]: IndexError when there is no '|'.
ReaderRaises(s) == Len(PySplit(s, "|")) < 2

split_seqid_reader(s) ==
    LET segs == PySplit(s, "|") IN segs[Len(segs) - 1]

\* Variant that strips only the last '.'-suffix instead of everything from the first '.'.
split_seqid_rstrip(s) ==
    LET segs == PySplit(s, "|")
        last == segs[Len(segs)]
        dots == PySplit(last, ".")
    IN  IF Len(dots) = 1 THEN last
        ELSE PyJoin(".", SubSeq(dots, 1, Len(dots) - 1))

\* seqid.split('|')[-1].split('.')[0]
split_seqid_writer(s) ==
    LET segs == PySplit(s, "|") IN PySplit(segs[Len(segs)], ".")[1]

\* A call of the global name split_seqid is resolved when the call is made:
\* def is the cell whose definition the name is bound to at that moment.
SplitSeqidRaises(def, s) == def = "reader" /\ ReaderRaises(s)

SplitSeqid(def, s) ==
    IF def = "reader" THEN split_seqid_reader(s) ELSE split_seqid_writer(s)

\* Running the reader cell (re)binds split_seqid to the [-2] definition.
RunReaderCell ==
    /\ split_seqid' = "reader"
    /\ UNCHANGED <<seqid, results, mcl_file, all_clusters, error, gbk_files,
                   clusters, features, pc, ci, pairs_dict, files>>

\* Running the writer cell rebinds split_seqid to the [-1].split('.')[0] definition.
RunWriterCell ==
    /\ split_seqid' = "writer"
    /\ UNCHANGED <<seqid, results, mcl_file, all_clusters, error, gbk_files,
                   clusters, features, pc, ci, pairs_dict, files>>

----------------------------------------------------------------------------
(* Direct calls of split_seqid, each on the value the previous call        *)
(* returned                                                                *)

MaxIdLen == 4
MaxCalls == 2

IdChars == {"a", "|", "."}

RECURSIVE StringsUpTo(_, _)
StringsUpTo(chars, n) ==
    IF n = 0 THEN {""}
    ELSE LET shorter == StringsUpTo(chars, n - 1)
         IN  shorter \cup {s \o c : s \in shorter, c \in chars}

SeqIds == StringsUpTo(IdChars, MaxIdLen)

CurrentArg == IF results = <<>> THEN seqid ELSE results[Len(results)]

CallSplitSeqid ==
    /\ error = "none"
    /\ Len(results) < MaxCalls
    /\ ~SplitSeqidRaises(split_seqid, CurrentArg)
    /\ results' = Append(results, SplitSeqid(split_seqid, CurrentArg))
    /\ UNCHANGED <<split_seqid, seqid, mcl_file, all_clusters, error, gbk_files,
                   clusters, features, pc, ci, pairs_dict, files>>

CallSplitSeqidIndexError ==
    /\ error = "none"
    /\ Len(results) < MaxCalls
    /\ SplitSeqidRaises(split_seqid, CurrentArg)
    /\ error' = "IndexError"
    /\ UNCHANGED <<split_seqid, seqid, results, mcl_file, all_clusters, gbk_files,
                   clusters, features, pc, ci, pairs_dict, files>>

InitSplit ==
    /\ split_seqid \in {"reader", "writer"}
    /\ seqid \in SeqIds
    /\ results = <<>>
    /\ mcl_file = <<>> /\ all_clusters = <<>> /\ error = "none"
    /\ gbk_files = <<>> /\ clusters = <<>> /\ features = <<>>
    /\ pc = "idle" /\ ci = 1 /\ pairs_dict = <<>> /\ files = <<>>

NextSplit == CallSplitSeqid \/ CallSplitSeqidIndexError

SpecSplit == InitSplit /\ [][NextSplit]_vars

HasChar(s, c) == \E i \in 1..Len(s) : Char(s, i) = c

\* C9: the last-segment split_seqid (last '|' segment, '.version' stripped) is
\* idempotent: every further application returns what the first one returned,
\* and an identifier with no '|' and no '.' is returned unchanged.
C9_Idempotent ==
    split_seqid = "writer" =>
        /\ \A i \in 1..Len(results) : results[i] = results[1]
        /\ (Len(results) >= 1 /\ ~HasChar(seqid, "|") /\ ~HasChar(seqid, "."))
               => results[1] = seqid

C9_Witness ==
    /\ split_seqid = "writer"
    /\ Len(results) = 2
    /\ HasChar(seqid, "|") /\ HasChar(seqid, ".")
    /\ results[1] # seqid /\ results[1] # ""
    /\ results[2] = results[1]

----------------------------------------------------------------------------
(* read_mcl                                                                *)

MaxLines == 2

\* Lines an MCL cluster file is made of here, without their line terminator.
MclLines ==
    { "",
      " ",
      "\t",
      "a",
      "|a",
      "gi|1|ref|YP_1.1|",
      "gi|1|ref|YP_1.1|\tgi|2|ref|YP_2.1|",
      "gi|3|ref|YP_3.2|\tgi|1|ref|YP_1.1|\tgi|2|ref|YP_2.1|",
      " a|b|\t \tc|d " }

MclFiles == UNION {[1..n -> MclLines] : n \in 0..MaxLines}

\* [l.strip().split() for l in fh if len(l.strip())]: iterating the file
\* yields each line with its terminator.
ReadMclLines(file) ==
    LET raw  == [i \in 1..Len(file) |-> file[i] \o "\n"]
        kept == SelectSeq(raw, LAMBDA l : Len(PyStrip(l)) > 0)
    IN  [i \in 1..Len(kept) |-> PySplitWs(PyStrip(kept[i]))]

ReadMclRaises(def, file) ==
    LET lines == ReadMclLines(file)
    IN  \E i \in 1..Len(lines) : \E j \in 1..Len(lines[i]) :
            SplitSeqidRaises(def, lines[i][j])

\* Variant that drops a line's last token.
ReadMclDropLast(def, file) ==
    LET lines == ReadMclLines(file)
    IN  [i \in 1..Len(lines) |->
            [j \in 1..(Len(lines[i]) - 1) |-> SplitSeqid(def, lines[i][j])]]

\* clusters.append(tuple([split_seqid(l) for l in line])) for every kept line
ReadMcl(def, file) ==
    LET lines == ReadMclLines(file)
    IN  [i \in 1..Len(lines) |->
            [j \in 1..Len(lines[i]) |-> SplitSeqid(def, lines[i][j])]]

\* The cell  all_clusters = read_mcl("data/out.seq.mci.I60"), run at any
\* point of the session and any number of times.
CallReadMcl ==
    /\ ~ReadMclRaises(split_seqid, mcl_file)
    /\ all_clusters' = ReadMcl(split_seqid, mcl_file)
    /\ pc' = "returned"
    /\ error' = "none"
    /\ UNCHANGED <<split_seqid, seqid, results, mcl_file, gbk_files, clusters,
                   features, ci, pairs_dict, files>>

\* The same cell when a token has no '|' under the [-2] definition: the
\* exception leaves the global all_clusters as it was.
CallReadMclIndexError ==
    /\ ReadMclRaises(split_seqid, mcl_file)
    /\ pc' = "raised"
    /\ error' = "IndexError"
    /\ UNCHANGED <<split_seqid, seqid, results, mcl_file, all_clusters, gbk_files,
                   clusters, features, ci, pairs_dict, files>>

\* The session once the reader cell has been run, with the cluster file on disk.
InitMcl ==
    /\ split_seqid = "reader"
    /\ seqid = "" /\ results = <<>>
    /\ mcl_file \in MclFiles /\ all_clusters = <<>> /\ error = "none"
    /\ gbk_files = <<>> /\ clusters = <<>> /\ features = <<>>
    /\ pc = "idle" /\ ci = 1 /\ pairs_dict = <<>> /\ files = <<>>

NextMcl == RunReaderCell \/ RunWriterCell \/ CallReadMcl \/ CallReadMclIndexError

SpecMcl == InitMcl /\ [][NextMcl]_vars

\* A line counts as non-empty when it holds a character that is not whitespace.
NonEmptyLines(file) ==
    SelectSeq(file, LAMBDA l : \E k \in 1..Len(l) : ~IsSpace(Char(l, k)))

\* Positions where a whitespace-separated token of the line starts.
TokenStarts(l) ==
    {k \in 1..Len(l) : ~IsSpace(Char(l, k)) /\ (k = 1 \/ IsSpace(Char(l, k - 1)))}

\* The token starting at position k: up to the next whitespace or the end.
TokenAt(l, k) ==
    LET stops == {e \in k..Len(l) : e = Len(l) \/ IsSpace(Char(l, e + 1))}
    IN  SubSeq(l, k, CHOOSE e \in stops : \A x \in stops : e <= x)

\* The j-th token of the line.
NthToken(l, j) ==
    TokenAt(l, CHOOSE k \in TokenStarts(l) :
                   Cardinality({x \in TokenStarts(l) : x <= k}) = j)

WellFormed(file) ==
    \A i \in 1..Len(file) : \A k \in TokenStarts(file[i]) : HasChar(TokenAt(file[i], k), "|")

\* C7: for a well-formed cluster file read_mcl returns one tuple per non-empty
\* line, in file order, each with one identifier per whitespace-separated
\* token of its line (the identifier being that token's normalisation).
C7_OneTuplePerLine ==
    (pc = "returned" /\ WellFormed(mcl_file)) =>
        LET lines == NonEmptyLines(mcl_file)
        IN  /\ Len(all_clusters) = Len(lines)
            /\ \A i \in 1..Len(lines) :
                  /\ Len(all_clusters[i]) = Cardinality(TokenStarts(lines[i]))
                  /\ \A j \in 1..Len(all_clusters[i]) :
                        all_clusters[i][j] \in
                            { split_seqid_reader(NthToken(lines[i], j)),
                              split_seqid_writer(NthToken(lines[i], j)) }

C7_Witness ==
    /\ pc = "returned" /\ WellFormed(mcl_file)
    /\ Len(mcl_file) = 2
    /\ mcl_file[1] = "\t"
    /\ Cardinality(TokenStarts(mcl_file[2])) = 3
    /\ Len(all_clusters) = 1
    /\ Len(all_clusters[1]) = 3
    /\ all_clusters[1][1] = "YP_3.2"

\* A token of the form gi|<number>|ref|<accession>.<version>|
IsGiToken(tok) ==
    LET segs == PySplit(tok, "|")
    IN  /\ Len(segs) = 5
        /\ segs[1] = "gi" /\ segs[3] = "ref" /\ segs[5] = ""
        /\ HasChar(segs[4], ".")

\* C10: whenever read_mcl is called, also after the writer cell has been run,
\* a token gi|<number>|ref|<accession>.<version>| is reduced to
\* <accession>.<version>.
C10_ReadMclKeepsAccessionVersion ==
    (pc = "returned" /\ WellFormed(mcl_file)) =>
        LET lines == NonEmptyLines(mcl_file)
        IN  \A i \in 1..Len(lines) : \A j \in 1..Cardinality(TokenStarts(lines[i])) :
                IsGiToken(NthToken(lines[i], j)) =>
                    /\ i <= Len(all_clusters) /\ j <= Len(all_clusters[i])
                    /\ all_clusters[i][j] = PySplit(NthToken(lines[i], j), "|")[4]

----------------------------------------------------------------------------
(* read_genbank                                                            *)

MaxFiles == 2
MaxFeatures == 2

\* What a feature of a record can be: its type and its protein_id qualifier.
FeatureKinds ==
    { [type |-> "CDS",  protein_id |-> "YP_1.1"],
      [type |-> "CDS",  protein_id |-> "YP_2.1"],
      [type |-> "gene", protein_id |-> "YP_9.1"] }

\* The record SeqIO.read returns for the k-th file: organism k, and the j-th
\* feature at a location of its own, on alternating strands.
GbkRecord(k, kinds) ==
    [ gi       |-> PyStr(k),
      id       |-> "NC_" \o PyStr(k) \o ".1",
      features |-> [j \in 1..Len(kinds) |->
                      [ type       |-> kinds[j].type,
                        protein_id |-> kinds[j].protein_id,
                        start      |-> 10 * j,
                        end        |-> 10 * j + 6 + k,
                        strand     |-> IF j % 2 = 1 THEN 1 ELSE -1 ]] ]

FeatureLists == UNION {[1..n -> FeatureKinds] : n \in 0..MaxFeatures}

\* The records of the files passed to read_genbank, given each file's features.
GbkRecords(fls) == [k \in 1..Len(fls) |-> GbkRecord(k, fls[k])]

\* record_name = '|'.join(["gi", record.annotations['gi'], "ref", record.id])
RecordName(record) == PyJoin("|", <<"gi", record.gi, "ref", record.id>>)

\* Variant that keeps the entry already stored for a protein id.
StoreFeatureKeepFirst(ft_dict, record_name, ft) ==
    ft_dict @@ (ft.protein_id :> <<record_name, ft.start, ft.end, ft.strand>>)

\* ft_dict[ft.qualifiers['protein_id'][0]] = (record_name, start, end, strand)
StoreFeature(ft_dict, record_name, ft) ==
    (ft.protein_id :> <<record_name, ft.start, ft.end, ft.strand>>) @@ ft_dict

\* for ft in [f for f in record.features if f.type == "CDS"]: ...
RECURSIVE StoreRecord(_, _, _)
StoreRecord(ft_dict, record_name, fts) ==
    IF fts = <<>> THEN ft_dict
    ELSE StoreRecord(IF Head(fts).type = "CDS"
                        THEN StoreFeature(ft_dict, record_name, Head(fts))
                        ELSE ft_dict,
                     record_name, Tail(fts))

\* for filename in filenames: ...
RECURSIVE ReadGenbank(_, _)
ReadGenbank(ft_dict, records) ==
    IF records = <<>> THEN ft_dict
    ELSE ReadGenbank(StoreRecord(ft_dict, RecordName(Head(records)),
                                 Head(records).features),
                     Tail(records))

\* The cell  features = read_genbank(<files>)
CallReadGenbank ==
    /\ pc = "idle"
    /\ features' = ReadGenbank(<<>>, gbk_files)
    /\ pc' = "returned"
    /\ UNCHANGED <<split_seqid, seqid, results, mcl_file, all_clusters, error,
                   gbk_files, clusters, ci, pairs_dict, files>>

InitGbk ==
    /\ split_seqid = "reader"
    /\ seqid = "" /\ results = <<>>
    /\ mcl_file = <<>> /\ all_clusters = <<>> /\ error = "none"
    /\ \E n \in 0..MaxFiles : \E fls \in [1..n -> FeatureLists] :
          gbk_files = GbkRecords(fls)
    /\ clusters = <<>> /\ features = <<>>
    /\ pc = "idle" /\ ci = 1 /\ pairs_dict = <<>> /\ files = <<>>

NextGbk == CallReadGenbank

SpecGbk == InitGbk /\ [][NextGbk]_vars

\* Where CDS features with protein id p occur: (file index, feature index).
Occurrences(p) ==
    UNION { {<<k, j>> : j \in {x \in 1..Len(gbk_files[k].features) :
                                /\ gbk_files[k].features[x].type = "CDS"
                                /\ gbk_files[k].features[x].protein_id = p}}
            : k \in 1..Len(gbk_files) }

Later(o1, o2) == o1[1] > o2[1] \/ (o1[1] = o2[1] /\ o1[2] >= o2[2])

----------------------------------------------------------------------------
(* write_crunch                                                            *)

MaxClusters == 2

Ids == {"id1", "id2", "id3"}

\* A feature is the tuple (source, start, end, strand) read_genbank stores.
\* The feature mappings write_crunch is given here:
FeatureMaps ==
    { \* the two organisms of the specification's end-to-end scenario; id3 unknown
      ("id1" :> <<"orgA", 0, 10, 1>>) @@ ("id2" :> <<"orgB", 5, 15, 1>>),
      \* one organism, features that differ only in strand or in end
      ("id1" :> <<"orgA", 5, 20, -1>>) @@ ("id2" :> <<"orgA", 5, 20, 1>>)
          @@ ("id3" :> <<"orgA", 5, 12, 1>>),
      \* record names as read_genbank builds them; two versions of accession NC_1
      ("id1" :> <<"gi|1|ref|NC_1.1", 10, 17, 1>>) @@ ("id2" :> <<"gi|2|ref|NC_2.1", 10, 18, 1>>)
          @@ ("id3" :> <<"gi|3|ref|NC_1.2", 20, 29, -1>>),
      \* two protein ids with the same feature
      ("id1" :> <<"orgB", 5, 15, 1>>) @@ ("id2" :> <<"orgA", 0, 10, -1>>)
          @@ ("id3" :> <<"orgB", 5, 15, 1>>) }

\* A cluster: a non-empty tuple of distinct identifiers.
ClusterTuples ==
    UNION { {t \in [1..n -> Ids] : \A i, j \in 1..n : i # j => t[i] # t[j]}
            : n \in 1..Cardinality(Ids) }

ClusterLists == UNION {[1..n -> ClusterTuples] : n \in 0..MaxClusters}

outdir == "data"

\* Variant that pairs only neighbouring members.
AdjacentPairs(cluster) ==
    [j \in 1..(Len(cluster) - 1) |-> <<cluster[j], cluster[j + 1]>>]

\* itertools.combinations(cluster, 2): positions i < j in lexicographic order.
RECURSIVE Combinations(_)
Combinations(cluster) ==
    IF Len(cluster) < 2 THEN <<>>
    ELSE [j \in 1..(Len(cluster) - 1) |-> <<cluster[1], cluster[j + 1]>>]
            \o Combinations(Tail(cluster))

\* f < g for feature tuples: element by element, left to right.
FtLess(f, g) ==
    IF f[1] # g[1] THEN StrLess(f[1], g[1])
    ELSE IF f[2] # g[2] THEN f[2] < g[2]
    ELSE IF f[3] # g[3] THEN f[3] < g[3]
    ELSE f[4] < g[4]

\* Variant that keeps the pair in the order the members were enumerated.
UnsortedPair(f, g) == <<f, g>>

\* ft1, ft2 = sorted([features[pair[0]], features[pair[1]]])
SortedPair(f, g) == IF FtLess(g, f) THEN <<g, f>> ELSE <<f, g>>

\* key = "%s_vs_%s" % (split_seqid(ft1[0]), split_seqid(ft2[0])), with
\* split_seqid resolved when write_crunch runs.
PairKey(def, ft1, ft2) == SplitSeqid(def, ft1[1]) \o "_vs_" \o SplitSeqid(def, ft2[1])

\* The body of the inner loop: pairs_dict[key].add((ft1, ft2)) on a defaultdict(set).
AddPair(def, pd, fts, a, b) ==
    LET sp  == SortedPair(fts[a], fts[b])
        key == PairKey(def, sp[1], sp[2])
    IN  (key :> ((IF key \in DOMAIN pd THEN pd[key] ELSE {}) \cup {sp})) @@ pd

RECURSIVE AddPairs(_, _, _, _)
AddPairs(def, pd, fts, pairs) ==
    IF pairs = <<>> THEN pd
    ELSE AddPairs(def, AddPair(def, pd, fts, Head(pairs)[1], Head(pairs)[2]), fts,
                  Tail(pairs))

\* The whole first loop, for cluster lists whose lookups all succeed.
RECURSIVE AllPairs(_, _, _, _)
AllPairs(def, pd, fts, cls) ==
    IF cls = <<>> THEN pd
    ELSE AllPairs(def, AddPairs(def, pd, fts, Combinations(Head(cls))), fts, Tail(cls))

\* features[pair[0]] or features[pair[1]] raises KeyError for some pair of the cluster.
LookupRaises(fts, cluster) ==
    \E i \in 1..Len(Combinations(cluster)) :
        \/ Combinations(cluster)[i][1] \notin DOMAIN fts
        \/ Combinations(cluster)[i][2] \notin DOMAIN fts

\* Variant where the write loop sits inside the cluster loop.
WriteInsideLoop == ci > 1

\* The write loop starts once the cluster loop is over.
WriteEnabled == ci > Len(clusters)

\* Variant that never swaps the coordinates.
CoordFieldsNoSwap(ft) == <<PyStr(ft[2]), PyStr(ft[3])>>

\* str(ft[2]) if ft[3] < 0 else str(ft[1]),  str(ft[1]) if ft[3] < 0 else str(ft[2])
CoordFields(ft) ==
    << IF ft[4] < 0 THEN PyStr(ft[3]) ELSE PyStr(ft[2]),
       IF ft[4] < 0 THEN PyStr(ft[2]) ELSE PyStr(ft[3]) >>

\* Variant that joins the fields with tabs.
CrunchLineTabs(ft1, ft2) ==
    PyJoin("\t", <<"100", "100">> \o CoordFields(ft1) \o <<ft1[1]>>
                    \o CoordFields(ft2) \o <<ft2[1]>>) \o "\n"

\* " ".join(["100", "100", ...]) + "\n"
CrunchLine(ft1, ft2) ==
    PyJoin(" ", <<"100", "100">> \o CoordFields(ft1) \o <<ft1[1]>>
                   \o CoordFields(ft2) \o <<ft2[1]>>) \o "\n"

\* os.path.join(outdir, "%s.crunch" % k)
CrunchPath(k) == outdir \o "/" \o k \o ".crunch"

\* What the inner write loop leaves in the file: one line per element of the
\* set, in the set's iteration order (kept as a bag).
FileLines(v) ==
    [l \in {CrunchLine(p[1], p[2]) : p \in v} |->
        Cardinality({p \in v : CrunchLine(p[1], p[2]) = l})]

\* One pass of  for cluster in clusters  whose lookups all succeed.
ProcessCluster ==
    /\ pc = "running"
    /\ ci <= Len(clusters)
    /\ ~LookupRaises(features, clusters[ci])
    /\ pairs_dict' = AddPairs(split_seqid, pairs_dict, features, Combinations(clusters[ci]))
    /\ ci' = ci + 1
    /\ UNCHANGED <<split_seqid, seqid, results, mcl_file, all_clusters, error,
                   gbk_files, clusters, features, pc, files>>

\* The pass in which a lookup fails: the KeyError leaves write_crunch.
ProcessClusterKeyError ==
    /\ pc = "running"
    /\ ci <= Len(clusters)
    /\ LookupRaises(features, clusters[ci])
    /\ pc' = "raised"
    /\ error' = "KeyError"
    /\ UNCHANGED <<split_seqid, seqid, results, mcl_file, all_clusters, gbk_files,
                   clusters, features, ci, pairs_dict, files>>

\* One pass of  for k, v in pairs_dict.items(): the file of k is opened with
\* 'w' and filled.  The dict's iteration order is not fixed.
WriteFile ==
    /\ pc = "running"
    /\ WriteEnabled
    /\ \E k \in DOMAIN pairs_dict :
          /\ CrunchPath(k) \notin DOMAIN files
          /\ files' = (CrunchPath(k) :> FileLines(pairs_dict[k])) @@ files
    /\ UNCHANGED <<split_seqid, seqid, results, mcl_file, all_clusters, error,
                   gbk_files, clusters, features, pc, ci, pairs_dict>>

\* write_crunch returns after the last file.
Return ==
    /\ pc = "running"
    /\ ci > Len(clusters)
    /\ \A k \in DOMAIN pairs_dict : CrunchPath(k) \in DOMAIN files
    /\ pc' = "returned"
    /\ UNCHANGED <<split_seqid, seqid, results, mcl_file, all_clusters, error,
                   gbk_files, clusters, features, ci, pairs_dict, files>>

\* write_crunch(clusters, features) entered, in a session whose cells were run
\* top to bottom, with no .crunch file in outdir.
Init ==
    /\ split_seqid = "writer"
    /\ seqid = "" /\ results = <<>>
    /\ mcl_file = <<>> /\ all_clusters = <<>> /\ error = "none"
    /\ gbk_files = <<>>
    /\ clusters \in ClusterLists
    /\ features \in FeatureMaps
    /\ pc = "running" /\ ci = 1 /\ pairs_dict = <<>> /\ files = <<>>

Next == ProcessCluster \/ ProcessClusterKeyError \/ WriteFile \/ Return

Spec == Init /\ [][Next]_vars

----------------------------------------------------------------------------
(* Properties of write_crunch                                              *)

\* Every (ft1, ft2) stored under any key.
StoredPairs == UNION {pairs_dict[k] : k \in DOMAIN pairs_dict}

\* The fields of a line: its text without the terminator, cut at the spaces.
Fields(line) == PySplit(SubSeq(line, 1, Len(line) - 1), " ")

\* The features of two members of a cluster, smaller one first.
Ordered(f, g) ==
    IF \/ StrLess(g[1], f[1])
       \/ (g[1] = f[1] /\ g[2] < f[2])
       \/ (g[1] = f[1] /\ g[2] = f[2] /\ g[3] < f[3])
       \/ (g[1] = f[1] /\ g[2] = f[2] /\ g[3] = f[3] /\ g[4] < f[4])
    THEN <<g, f>> ELSE <<f, g>>

\* The positions i < j of two members of a tuple of n.
PositionPairs(n) == {ij \in (1..n) \X (1..n) : ij[1] < ij[2]}

\* The feature pairs the clusters call for: two members at positions i < j.
ExpectedPairs ==
    UNION { { Ordered(features[clusters[c][ij[1]]], features[clusters[c][ij[2]]]) :
                ij \in PositionPairs(Len(clusters[c])) }
            : c \in 1..Len(clusters) }

\* C1: write_crunch writes exactly one file <key>.crunch per comparison-group
\* key and no other file; each file holds one line per stored pair of its
\* group, of eight space-separated fields beginning "100 100"; the pairs are
\* those of two members of one cluster, so a one-member cluster adds nothing.
\* The scenario [(id1,id2),(id3)] yields the single file orgA_vs_orgB.crunch
\* with the single line "100 100 0 10 orgA 5 15 orgB".
C1_OneFilePerGroup ==
    pc = "returned" =>
        /\ DOMAIN files = {"data/" \o k \o ".crunch" : k \in DOMAIN pairs_dict}
        /\ StoredPairs = ExpectedPairs
        /\ \A k \in DOMAIN pairs_dict :
              LET f == files["data/" \o k \o ".crunch"]
              IN  /\ pairs_dict[k] # {}
                  /\ BagCardinality(f) = Cardinality(pairs_dict[k])
                  /\ \A p \in pairs_dict[k] :
                        \E l \in BagToSet(f) :
                            /\ Len(Fields(l)) = 8
                            /\ Fields(l)[1] = "100" /\ Fields(l)[2] = "100"
                            /\ Fields(l)[5] = p[1][1] /\ Fields(l)[8] = p[2][1]
                            /\ {Fields(l)[3], Fields(l)[4]} = {PyStr(p[1][2]), PyStr(p[1][3])}
                            /\ {Fields(l)[6], Fields(l)[7]} = {PyStr(p[2][2]), PyStr(p[2][3])}
        /\ (\A c \in 1..Len(clusters) : Len(clusters[c]) = 1) => files = <<>>
        /\ ( /\ clusters = << <<"id1", "id2">>, <<"id3">> >>
             /\ features = ("id1" :> <<"orgA", 0, 10, 1>>) @@ ("id2" :> <<"orgB", 5, 15, 1>>) )
           => files = ("data/orgA_vs_orgB.crunch" :>
                          SetToBag({"100 100 0 10 orgA 5 15 orgB\n"}))

C1_Witness ==
    /\ pc = "returned"
    /\ clusters = << <<"id1", "id2">>, <<"id3">> >>
    /\ "id3" \notin DOMAIN features
    /\ DOMAIN files = {"data/orgA_vs_orgB.crunch"}

Reorderings(t) ==
    { [i \in 1..Len(t) |-> t[q[i]]] :
        q \in {f \in [1..Len(t) -> 1..Len(t)] :
                 \A i, j \in 1..Len(t) : i # j => f[i] # f[j]} }

\* C2: a cluster of n members yields exactly n(n-1)/2 pairs, one per unordered
\* choice of two members (3 for a cluster of three), and the pairs stored
\* when write_crunch returns are the same for every order of the members
\* within any cluster.
C2_AllUnorderedPairs ==
    /\ \A c \in 1..Len(clusters) :
          LET n   == Len(clusters[c])
              cmb == Combinations(clusters[c])
          IN  /\ 2 * Len(cmb) = n * (n - 1)
              /\ {{cmb[i][1], cmb[i][2]} : i \in 1..Len(cmb)} =
                     {{clusters[c][ij[1]], clusters[c][ij[2]]} : ij \in PositionPairs(n)}
    /\ pc = "returned" =>
          \A c \in 1..Len(clusters) : \A t \in Reorderings(clusters[c]) :
              AllPairs(split_seqid, <<>>, features, [clusters EXCEPT ![c] = t]) = pairs_dict

C2_Witness ==
    /\ pc = "returned"
    /\ \E c \in 1..Len(clusters) :
          /\ Len(clusters[c]) = 3
          /\ Len(Combinations(clusters[c])) = 3
          /\ clusters[c][1] = "id3" /\ clusters[c][3] = "id1"
    /\ Cardinality(StoredPairs) = 3

\* C3: a pair is stored the same way whichever member comes first: under one
\* key, as one entry (ft1, ft2) with ft1 <= ft2 in the order source, start,
\* end, strand; the same two features reached again, from another cluster or
\* in the other order, add no entry and no line.
C3_PairOrderIndependent ==
    /\ \A k \in DOMAIN pairs_dict : \A p \in pairs_dict[k] :
          /\ Ordered(p[1], p[2]) = p
          /\ k = split_seqid_writer(p[1][1]) \o "_vs_" \o split_seqid_writer(p[2][1])
          /\ (p[1] # p[2]) => <<p[2], p[1]>> \notin StoredPairs
    /\ \A a, b \in DOMAIN features :
          AddPair(split_seqid, pairs_dict, features, a, b)
              = AddPair(split_seqid, pairs_dict, features, b, a)
    /\ pc = "returned" =>
          \A k \in DOMAIN pairs_dict :
              /\ BagCardinality(files[CrunchPath(k)]) = Cardinality(pairs_dict[k])
              /\ \A p \in pairs_dict[k] :
                    BagIn(CrunchLine(Ordered(p[2], p[1])[1], Ordered(p[2], p[1])[2]),
                          files[CrunchPath(k)])

C3_Witness ==
    /\ pc = "returned"
    /\ clusters = << <<"id1", "id2">>, <<"id2", "id1">> >>
    /\ FtLess(features["id2"], features["id1"])
    /\ Cardinality(StoredPairs) = 1
    /\ \A path \in DOMAIN files : BagCardinality(files[path]) = 1

\* C4: for two distinct organism short names X and Y, one run never produces
\* both a group X_vs_Y and a group Y_vs_X.
C4_OneKeyPerOrganismPair ==
    \A p, q \in StoredPairs :
        LET x1 == split_seqid_writer(p[1][1])
            y1 == split_seqid_writer(p[2][1])
            x2 == split_seqid_writer(q[1][1])
            y2 == split_seqid_writer(q[2][1])
        IN  ~(x1 # y1 /\ x2 = y1 /\ y2 = x1
                /\ (x1 \o "_vs_" \o y1) \in DOMAIN pairs_dict
                /\ (x2 \o "_vs_" \o y2) \in DOMAIN pairs_dict)

\* The identifiers the pairs of a cluster look up.
PairMembers(cluster) == IF Len(cluster) < 2 THEN {} ELSE {cluster[i] : i \in 1..Len(cluster)}

\* C5: a pair member absent from the feature mapping makes write_crunch fail
\* with KeyError in the pass over its cluster, and at that moment no .crunch
\* file has been created: all lookups precede the first open.
C5_KeyErrorBeforeAnyFile ==
    /\ pc = "raised" =>
          /\ error = "KeyError"
          /\ files = <<>>
          /\ ci <= Len(clusters)
          /\ ~(PairMembers(clusters[ci]) \subseteq DOMAIN features)
    /\ \A c \in 1..Len(clusters) :
          (c < ci) => PairMembers(clusters[c]) \subseteq DOMAIN features
    /\ files # <<>> =>
          \A c \in 1..Len(clusters) : PairMembers(clusters[c]) \subseteq DOMAIN features

C5_Witness ==
    /\ pc = "raised"
    /\ ci = 2
    /\ pairs_dict # <<>>
    /\ "id3" \notin DOMAIN features
    /\ clusters[2] = <<"id2", "id3">>
    /\ files = <<>>

\* C6: in every line, each feature's two coordinates come end-first exactly
\* when that feature's own strand is negative and start-first otherwise;
\* (start 5, end 20, strand -1) is written "20 5".
C6_NegativeStrandSwapped ==
    \A k \in DOMAIN pairs_dict :
        CrunchPath(k) \in DOMAIN files =>
            /\ {Fields(l) : l \in BagToSet(files[CrunchPath(k)])} =
                  { << "100", "100",
                       PyStr(IF p[1][4] < 0 THEN p[1][3] ELSE p[1][2]),
                       PyStr(IF p[1][4] < 0 THEN p[1][2] ELSE p[1][3]),
                       p[1][1],
                       PyStr(IF p[2][4] < 0 THEN p[2][3] ELSE p[2][2]),
                       PyStr(IF p[2][4] < 0 THEN p[2][2] ELSE p[2][3]),
                       p[2][1] >> : p \in pairs_dict[k] }
            /\ \A p \in pairs_dict[k] :
                  (p[1] = <<"orgA", 5, 20, -1>> /\ p[2] = <<"orgA", 5, 20, 1>>)
                      => BagIn("100 100 20 5 orgA 5 20 orgA\n", files[CrunchPath(k)])

C6_Witness ==
    /\ pc = "returned"
    /\ "data/orgA_vs_orgA.crunch" \in DOMAIN files
    /\ BagIn("100 100 20 5 orgA 5 20 orgA\n", files["data/orgA_vs_orgA.crunch"])
    /\ BagIn("100 100 5 12 orgA 20 5 orgA\n", files["data/orgA_vs_orgA.crunch"])

====
